---------------------------- MODULE Spec2Model ----------------------------
(***************************************************************************)
(* Model of the two relays of the repository:                              *)
(*   - src/api/index.py : the HTTP handler (do_POST, do_GET, do_OPTIONS,   *)
(*     handle_chat, handle_analyze, handle_list_tools);                    *)
(*   - src/server.py    : the stdio tool server (list_tools, call_tool).    *)
(* The completion provider is an opaque collaborator: each request draws   *)
(* the outcome its single invocation would have (a reply or a fault).      *)
(*                                                                         *)
(* Python values are encoded as TLA+ values: str as strings, dict as       *)
(* functions from keys to values, list as sequences.  Two Python values    *)
(* that are not strings are encoded as reserved strings that no input text *)
(* equals: None (the value None) and ListValue (a JSON array, unhashable). *)
(***************************************************************************)
EXTENDS Integers, Sequences, FiniteSets, TLC

VARIABLES surface, request, outcome, wire, outbound, ncalls, nreq

vars == <<surface, request, outcome, wire, outbound, ncalls, nreq>>

(***************************************************************************)
(* Bounds and program constants                                            *)
(***************************************************************************)
MaxRequests == 3

MaxTokens == 1000

None == "<None>"

ListValue == "<list>"

DefaultSystemPrompt == "You are a helpful AI assistant."

DefaultModel == "gpt-4o"

AnalyzeModel == "gpt-4o"

(***************************************************************************)
(* Python helpers                                                          *)
(***************************************************************************)
\* dict.get(key, default)
Get(d, k, default) == IF k \in DOMAIN d THEN d[k] ELSE default

\* str(v) as an f-string placeholder renders it
Fmt(v) == IF v = None THEN "None" ELSE IF v = ListValue THEN "[]" ELSE v

\* repr(v), which is how str(KeyError(v)) renders the missing key
Repr(v) == IF v = None THEN "None" ELSE IF v = ListValue THEN "[]" ELSE "'" \o v \o "'"

NoCalls == <<>>

(***************************************************************************)
(* The completion provider: client.chat.completions.create                 *)
(***************************************************************************)
Usage(p, c, t) == [prompt_tokens |-> p, completion_tokens |-> c, total_tokens |-> t]

Reply(choices, usage) == [ok |-> TRUE, choices |-> choices, usage |-> usage, error |-> ""]

Fault(m) == [ok |-> FALSE, choices |-> <<>>, usage |-> Usage(0, 0, 0), error |-> m]

Outcomes ==
    { Reply(<<"first reply", "second reply">>, Usage(3, 5, 8)),
      Reply(<<"only reply">>, Usage(7, 2, 9)),
      Reply(<<>>, Usage(4, 0, 4)),
      Fault("quota exceeded"),
      Fault("Connection error.") }

\* The request the provider receives
Call(model, messages) == [model |-> model, messages |-> messages, max_tokens |-> MaxTokens]

\* One invocation of the provider: the calls it received, and either the
\* response object or the exception raised.
\* Variant: a faulting invocation is attempted a second time
create_retry(call, out) ==
    [ calls    |-> IF out.ok THEN <<call>> ELSE <<call, call>>,
      raised   |-> ~out.ok, exc |-> out.error, response |-> out ]

create(call, out) ==
    [calls |-> <<call>>, raised |-> ~out.ok, exc |-> out.error, response |-> out]

\* response.choices[0].message.content ; IndexError when there is no choice
first_choice(response) ==
    IF response.choices = <<>>
    THEN [raised |-> TRUE, exc |-> "list index out of range", value |-> None]
    ELSE [raised |-> FALSE, exc |-> "", value |-> response.choices[1]]

(***************************************************************************)
(* The prompt templates (identical on both surfaces)                       *)
(***************************************************************************)
AnalysisTypes == {"sentiment", "themes", "summary", "key_points"}

\* Variant: the summary and themes instructions are exchanged
prompts_exchanged(text) ==
    [ sentiment  |-> "Analyze the sentiment of this text and provide a detailed assessment:" \o "\n\n" \o Fmt(text),
      themes     |-> "Provide a concise summary of this text:" \o "\n\n" \o Fmt(text),
      summary    |-> "Identify and explain the main themes in this text:" \o "\n\n" \o Fmt(text),
      key_points |-> "Extract the key points from this text as a bulleted list:" \o "\n\n" \o Fmt(text) ]

prompts(text) ==
    [ sentiment  |-> "Analyze the sentiment of this text and provide a detailed assessment:" \o "\n\n" \o Fmt(text),
      themes     |-> "Identify and explain the main themes in this text:" \o "\n\n" \o Fmt(text),
      summary    |-> "Provide a concise summary of this text:" \o "\n\n" \o Fmt(text),
      key_points |-> "Extract the key points from this text as a bulleted list:" \o "\n\n" \o Fmt(text) ]

(***************************************************************************)
(* src/api/index.py                                                        *)
(***************************************************************************)
usage_dict(response) ==
    [ prompt_tokens     |-> response.usage.prompt_tokens,
      completion_tokens |-> response.usage.completion_tokens,
      total_tokens      |-> response.usage.total_tokens ]

http_failure(e) == [success |-> FALSE, error |-> e]

\* Variant: completion_tokens is filled from the total
chat_success_total(response, content, model) ==
    [ success |-> TRUE, response |-> content, model |-> model,
      usage   |-> [ prompt_tokens     |-> response.usage.prompt_tokens,
                    completion_tokens |-> response.usage.total_tokens,
                    total_tokens      |-> response.usage.total_tokens ] ]

chat_success(response, content, model) ==
    [ success |-> TRUE, response |-> content, model |-> model, usage |-> usage_dict(response) ]

handle_chat(data, out) ==
    LET message       == Get(data, "message", "")
        system_prompt == Get(data, "system_prompt", DefaultSystemPrompt)
        model         == Get(data, "model", DefaultModel)
        r == create(Call(model, << [role |-> "system", content |-> system_prompt],
                                   [role |-> "user", content |-> message] >>), out)
        c == first_choice(r.response)
    IN  [ calls    |-> r.calls,
          response |-> IF r.raised THEN http_failure(r.exc)
                       ELSE IF c.raised THEN http_failure(c.exc)
                       ELSE chat_success(r.response, c.value, model) ]

analyze_success(response, content, analysis_type) ==
    [ success |-> TRUE, analysis |-> content, type |-> analysis_type, usage |-> usage_dict(response) ]

\* prompts.get(analysis_type, prompts['summary']); TypeError on an unhashable key
http_select_prompt(text, analysis_type) ==
    IF analysis_type = ListValue
    THEN [raised |-> TRUE, exc |-> "unhashable type: 'list'", value |-> None]
    ELSE [raised |-> FALSE, exc |-> "",
          value |-> IF analysis_type \in AnalysisTypes
                    THEN prompts(text)[analysis_type]
                    ELSE prompts(text)["summary"]]

handle_analyze(data, out) ==
    LET text          == Get(data, "text", "")
        analysis_type == Get(data, "analysis_type", "summary")
        p == http_select_prompt(text, analysis_type)
        r == create(Call(AnalyzeModel, << [role |-> "user", content |-> p.value] >>), out)
        c == first_choice(r.response)
    IN  IF p.raised THEN [calls |-> NoCalls, response |-> http_failure(p.exc)]
        ELSE [ calls    |-> r.calls,
               response |-> IF r.raised THEN http_failure(r.exc)
                            ELSE IF c.raised THEN http_failure(c.exc)
                            ELSE analyze_success(r.response, c.value, analysis_type) ]

\* Variant: the catalog is returned without the success flag
handle_list_tools_bare ==
    [ tools |-> << [ name |-> "chat", description |-> "Chat with ChatGPT",
                     parameters |-> <<"message", "system_prompt (optional)",
                                      "model (optional: gpt-4o, gpt-4o-mini, gpt-4-turbo)">> ],
                   [ name |-> "analyze", description |-> "Analyze text",
                     parameters |-> <<"text",
                                      "analysis_type (sentiment|themes|summary|key_points)">> ] >> ]

handle_list_tools ==
    [ success |-> TRUE,
      tools   |-> << [ name |-> "chat", description |-> "Chat with ChatGPT",
                       parameters |-> <<"message", "system_prompt (optional)",
                                        "model (optional: gpt-4o, gpt-4o-mini, gpt-4-turbo)">> ],
                     [ name |-> "analyze", description |-> "Analyze text",
                       parameters |-> <<"text",
                                        "analysis_type (sentiment|themes|summary|key_points)">> ] >> ]

unknown_action == [error |-> "Unknown action"]

JsonHeaders ==
    ("Content-type" :> "application/json") @@ ("Access-Control-Allow-Origin" :> "*")

HttpResponse(status, headers, body) == [status |-> status, headers |-> headers, body |-> body]

\* What a handler run leaves behind: the responses written, the provider
\* calls made, and whether an exception left the handler.
HttpRun(raised, exc, responses, calls) ==
    [raised |-> raised, exc |-> exc, responses |-> responses, calls |-> calls]

\* int(self.headers['Content-Length']): headers[...] is None when the header
\* is missing
NumericStrings == {"len"}

int_raises(v) == v \notin NumericStrings

int_exc(v) ==
    IF v = None
    THEN "int() argument must be a string, a bytes-like object or a number, not 'NoneType'"
    ELSE "invalid literal for int() with base 10: " \o Repr(v)

\* json.loads(post_data.decode('utf-8'))
json_loads(post_data) ==
    IF post_data.json = "invalid"
    THEN [raised |-> TRUE, exc |-> "Expecting value: line 1 column 1 (char 0)", value |-> None]
    ELSE [raised |-> FALSE, exc |-> "", value |-> post_data]

\* The body of the try block of do_POST once the body is decoded to a dict
route(data, out) ==
    LET action == Get(data, "action", None)
    IN  IF action = "chat" THEN handle_chat(data, out)
        ELSE IF action = "analyze" THEN handle_analyze(data, out)
        ELSE IF action = "list_tools" THEN [calls |-> NoCalls, response |-> handle_list_tools]
        ELSE [calls |-> NoCalls, response |-> unknown_action]

do_POST(req, out) ==
    IF int_raises(req.content_length)
    THEN HttpRun(TRUE, int_exc(req.content_length), <<>>, NoCalls)
    ELSE LET j == json_loads(req.post_data)
         IN  IF j.raised
             THEN HttpRun(FALSE, "", << HttpResponse(500, JsonHeaders, [error |-> j.exc]) >>, NoCalls)
             ELSE IF j.value.json # "object"
             THEN HttpRun(FALSE, "",
                          << HttpResponse(500, JsonHeaders,
                                          [error |-> "'list' object has no attribute 'get'"]) >>,
                          NoCalls)
             ELSE LET r == route(j.value.data, out)
                  IN  HttpRun(FALSE, "", << HttpResponse(200, JsonHeaders, r.response) >>, r.calls)

do_OPTIONS ==
    HttpRun(FALSE, "",
            << HttpResponse(200,
                            ("Access-Control-Allow-Origin" :> "*")
                              @@ ("Access-Control-Allow-Methods" :> "POST, OPTIONS")
                              @@ ("Access-Control-Allow-Headers" :> "Content-Type"),
                            None) >>,
            NoCalls)

\* Variant: the status document omits the list_tools action
do_GET_two_actions ==
    HttpRun(FALSE, "",
            << HttpResponse(200, JsonHeaders,
                            [ status    |-> "online",
                              service   |-> "MCP ChatGPT Server",
                              endpoints |-> ("POST /api" :> "Main API endpoint")
                                              @@ ("actions" :> <<"chat", "analyze">>) ]) >>,
            NoCalls)

do_GET ==
    HttpRun(FALSE, "",
            << HttpResponse(200, JsonHeaders,
                            [ status    |-> "online",
                              service   |-> "MCP ChatGPT Server",
                              endpoints |-> ("POST /api" :> "Main API endpoint")
                                              @@ ("actions" :> <<"chat", "analyze", "list_tools">>) ]) >>,
            NoCalls)

(***************************************************************************)
(* src/server.py                                                           *)
(***************************************************************************)
TextContent(text) == [type |-> "text", text |-> text]

list_tools ==
    << [ name |-> "chat_with_gpt",
         inputSchema |-> [ type |-> "object",
                           properties |-> {"message", "system_prompt", "model"},
                           required |-> {"message"} ] ],
       [ name |-> "analyze_text",
         inputSchema |-> [ type |-> "object",
                           properties |-> {"text", "analysis_type"},
                           required |-> {"text", "analysis_type"} ] ] >>

\* Variant: the exception's message is dropped from the error text
chat_error_text_generic(e) == "Error calling ChatGPT"

chat_error_text(e) == "Error calling ChatGPT: " \o e

analyze_error_text(e) == "Error analyzing text: " \o e

\* Variant: the tool name is dropped from the text
unknown_tool_unnamed(name) == << TextContent("Unknown tool") >>

unknown_tool(name) == << TextContent("Unknown tool: " \o name) >>

\* prompts[analysis_type]; KeyError on a missing key, TypeError on an
\* unhashable one
stdio_select_prompt(text, analysis_type) ==
    IF analysis_type = ListValue
    THEN [raised |-> TRUE, exc |-> "unhashable type: 'list'", value |-> None]
    ELSE IF analysis_type \notin AnalysisTypes
    THEN [raised |-> TRUE, exc |-> Repr(analysis_type), value |-> None]
    ELSE [raised |-> FALSE, exc |-> "", value |-> prompts(text)[analysis_type]]

StdioRun(raised, result, calls) == [raised |-> raised, result |-> result, calls |-> calls]

call_tool_chat(arguments, out) ==
    LET message       == Get(arguments, "message", None)
        system_prompt == Get(arguments, "system_prompt", DefaultSystemPrompt)
        model         == Get(arguments, "model", DefaultModel)
        r == create(Call(model, << [role |-> "system", content |-> system_prompt],
                                   [role |-> "user", content |-> message] >>), out)
        c == first_choice(r.response)
    IN  StdioRun(FALSE,
                 IF r.raised THEN << TextContent(chat_error_text(r.exc)) >>
                 ELSE IF c.raised THEN << TextContent(chat_error_text(c.exc)) >>
                 ELSE << TextContent(c.value) >>,
                 r.calls)

call_tool_analyze(arguments, out) ==
    LET text          == Get(arguments, "text", None)
        analysis_type == Get(arguments, "analysis_type", None)
        p == stdio_select_prompt(text, analysis_type)
        r == create(Call(AnalyzeModel, << [role |-> "user", content |-> p.value] >>), out)
        c == first_choice(r.response)
    IN  IF p.raised
        THEN StdioRun(FALSE, << TextContent(analyze_error_text(p.exc)) >>, NoCalls)
        ELSE StdioRun(FALSE,
                      IF r.raised THEN << TextContent(analyze_error_text(r.exc)) >>
                      ELSE IF c.raised THEN << TextContent(analyze_error_text(c.exc)) >>
                      ELSE << TextContent(c.value) >>,
                      r.calls)

call_tool(name, arguments, out) ==
    IF name = "chat_with_gpt" THEN call_tool_chat(arguments, out)
    ELSE IF name = "analyze_text" THEN call_tool_analyze(arguments, out)
    ELSE StdioRun(FALSE, unknown_tool(name), NoCalls)

(***************************************************************************)
(* Inputs                                                                  *)
(***************************************************************************)
Absent == "<absent>"

\* The dict holding the keys of r that are present
Dict(r) == [k \in {k \in DOMAIN r : r[k] # Absent} |-> r[k]]

Messages == {Absent, "hello"}

SystemPrompts == {Absent, "Be terse."}

Models == {Absent, "gpt-4o-mini", "no-such-model"}

Texts == {Absent, "some text"}

RequestedTypes == {Absent, "foo", ListValue} \cup AnalysisTypes

HttpActions == {Absent, "chat", "analyze", "list_tools", "foo", "chat_with_gpt"}

ToolNames == {"chat_with_gpt", "analyze_text", "bar", "chat", "list_tools"}

HttpData ==
    { Dict([action |-> a, message |-> m, system_prompt |-> s, model |-> mo]) :
        a \in {"chat"}, m \in Messages, s \in SystemPrompts, mo \in Models }
    \cup
    { Dict([action |-> a, text |-> t, analysis_type |-> ty]) :
        a \in {"analyze"}, t \in Texts, ty \in RequestedTypes }
    \cup
    { Dict([action |-> a, message |-> m]) :
        a \in HttpActions \ {"chat", "analyze"}, m \in Messages }

PostData ==
    { [json |-> "object", data |-> d] : d \in HttpData }
    \cup { [json |-> "invalid", data |-> Dict([action |-> Absent])],
           [json |-> "array", data |-> Dict([action |-> Absent])] }

ContentLengths == {None, "abc", "len"}

PostRequests ==
    { [method |-> "POST", content_length |-> cl, post_data |-> pd] :
        cl \in ContentLengths, pd \in PostData }

ChatArguments ==
    { Dict([message |-> m, system_prompt |-> s, model |-> mo]) :
        m \in Messages, s \in SystemPrompts, mo \in Models }

AnalyzeArguments ==
    { Dict([text |-> t, analysis_type |-> ty]) : t \in Texts, ty \in RequestedTypes }

ToolCalls ==
    { [op |-> "call_tool", name |-> n, arguments |-> a] :
        n \in {"chat_with_gpt"}, a \in ChatArguments }
    \cup
    { [op |-> "call_tool", name |-> n, arguments |-> a] :
        n \in {"analyze_text"}, a \in AnalyzeArguments }
    \cup
    { [op |-> "call_tool", name |-> n, arguments |-> a] :
        n \in ToolNames \ {"chat_with_gpt", "analyze_text"},
        a \in {Dict([message |-> "hello"]), Dict([text |-> "some text", analysis_type |-> "summary"])} }

(***************************************************************************)
(* State machine: one action per request handled                           *)
(***************************************************************************)
Init ==
    /\ surface = "none"
    /\ request = [method |-> "none"]
    /\ outcome = Fault("")
    /\ wire = HttpRun(FALSE, "", <<>>, NoCalls)
    /\ outbound = NoCalls
    /\ ncalls = 0
    /\ nreq = 0

\* Each action handles one request: it records the request, the outcome the
\* provider has for it, what the handler wrote, and the provider calls made.
DoPOST ==
    \E req \in PostRequests, out \in Outcomes :
        LET run == do_POST(req, out)
        IN  /\ nreq < MaxRequests
            /\ surface' = "http"
            /\ request' = req
            /\ outcome' = out
            /\ wire' = run
            /\ outbound' = run.calls
            /\ ncalls' = ncalls + Len(run.calls)
            /\ nreq' = nreq + 1

DoGET ==
    \E out \in Outcomes :
        LET run == do_GET
        IN  /\ nreq < MaxRequests
            /\ surface' = "http"
            /\ request' = [method |-> "GET"]
            /\ outcome' = out
            /\ wire' = run
            /\ outbound' = run.calls
            /\ ncalls' = ncalls + Len(run.calls)
            /\ nreq' = nreq + 1

DoOPTIONS ==
    \E out \in Outcomes :
        LET run == do_OPTIONS
        IN  /\ nreq < MaxRequests
            /\ surface' = "http"
            /\ request' = [method |-> "OPTIONS"]
            /\ outcome' = out
            /\ wire' = run
            /\ outbound' = run.calls
            /\ ncalls' = ncalls + Len(run.calls)
            /\ nreq' = nreq + 1

ListTools ==
    \E out \in Outcomes :
        LET run == StdioRun(FALSE, list_tools, NoCalls)
        IN  /\ nreq < MaxRequests
            /\ surface' = "stdio"
            /\ request' = [op |-> "list_tools"]
            /\ outcome' = out
            /\ wire' = run
            /\ outbound' = run.calls
            /\ ncalls' = ncalls + Len(run.calls)
            /\ nreq' = nreq + 1

CallTool ==
    \E req \in ToolCalls, out \in Outcomes :
        LET run == call_tool(req.name, req.arguments, out)
        IN  /\ nreq < MaxRequests
            /\ surface' = "stdio"
            /\ request' = req
            /\ outcome' = out
            /\ wire' = run
            /\ outbound' = run.calls
            /\ ncalls' = ncalls + Len(run.calls)
            /\ nreq' = nreq + 1

Next == DoPOST \/ DoGET \/ DoOPTIONS \/ ListTools \/ CallTool

Spec == Init /\ [][Next]_vars

(***************************************************************************)
(* Vocabulary of the properties                                            *)
(***************************************************************************)
IsPost == surface = "http" /\ request.method = "POST"

\* The POST body was read and decoded to a JSON object, so the router saw it
Decoded ==
    /\ IsPost
    /\ request.content_length \in NumericStrings
    /\ request.post_data.json = "object"

Data == request.post_data.data

Action == Get(Data, "action", None)

IsToolCall == surface = "stdio" /\ request.op = "call_tool"

HttpChat == Decoded /\ Action = "chat"

HttpAnalyze == Decoded /\ Action = "analyze"

StdioChat == IsToolCall /\ request.name = "chat_with_gpt"

StdioAnalyze == IsToolCall /\ request.name = "analyze_text"

\* The single response of the HTTP handler
OneResponse == ~wire.raised /\ Len(wire.responses) = 1

Body == wire.responses[1].body

Status == wire.responses[1].status

\* The provider was invoked and raised / returned a first choice
ProviderRaised == Len(outbound) >= 1 /\ ~outcome.ok

ProviderSucceeded == Len(outbound) >= 1 /\ outcome.ok /\ outcome.choices # <<>>

\* The template table of the specification (section 4.3)
Instruction ==
    [ sentiment  |-> "Analyze the sentiment of this text and provide a detailed assessment:",
      themes     |-> "Identify and explain the main themes in this text:",
      summary    |-> "Provide a concise summary of this text:",
      key_points |-> "Extract the key points from this text as a bulleted list:" ]

\* The messages a relay can report for a fault
FaultMessages ==
    { o.error : o \in Outcomes } \cup {"list index out of range", "unhashable type: 'list'"}
        \cup { Repr(t) : t \in RequestedTypes \cup {None} }

(***************************************************************************)
(* C1: for every POST request, whatever its headers, body, action and      *)
(* provider outcome, do_POST never raises and sends exactly one response:  *)
(* status 200 with a JSON body, or status 500 with a body {error: m}.      *)
(* The code reads Content-Length before its try block, so this fails.      *)
(***************************************************************************)
C1_PostNeverRaises ==
    IsPost =>
        /\ ~wire.raised
        /\ Len(wire.responses) = 1
        /\ Status \in {200, 500}
        /\ Status = 500 => DOMAIN Body = {"error"}

(***************************************************************************)
(* C2 as stated: every body the HTTP surface sends for a POST request      *)
(* carries a boolean success field, whichever branch produced it.          *)
(***************************************************************************)
C2_EveryPostBodyHasSuccess ==
    IsPost =>
        \A i \in 1..Len(wire.responses) :
            /\ "success" \in DOMAIN wire.responses[i].body
            /\ wire.responses[i].body.success \in BOOLEAN

(***************************************************************************)
(* C2 as amended: the body sent for a POST routed to chat, analyze or      *)
(* list_tools carries a boolean success field; the unknown-action body and *)
(* the 500 body carry an error field only.                                 *)
(***************************************************************************)
C2_RelayBodiesHaveSuccess ==
    /\ (Decoded /\ Action \in {"chat", "analyze", "list_tools"}) =>
            /\ OneResponse
            /\ "success" \in DOMAIN Body
            /\ Body.success \in BOOLEAN
    /\ (IsPost /\ ~wire.raised /\ ~(Decoded /\ Action \in {"chat", "analyze", "list_tools"})) =>
            /\ Len(wire.responses) = 1
            /\ DOMAIN Body = {"error"}

C2_Witness ==
    /\ Decoded /\ Action = "list_tools"
    /\ OneResponse
    /\ Body.success = TRUE

(***************************************************************************)
(* C3: a provider fault with message m never leaves a relay: the HTTP chat *)
(* and analysis relays answer {success: false, error: m} with status 200,  *)
(* and call_tool returns one text item 'Error calling ChatGPT: m' or       *)
(* 'Error analyzing text: m' instead of raising.                           *)
(***************************************************************************)
C3_ProviderFaultReported ==
    /\ ((HttpChat \/ HttpAnalyze) /\ ProviderRaised) =>
            /\ OneResponse
            /\ Status = 200
            /\ Body = [success |-> FALSE, error |-> outcome.error]
    /\ (StdioChat /\ ProviderRaised) =>
            /\ ~wire.raised
            /\ wire.result = << [type |-> "text", text |-> "Error calling ChatGPT: " \o outcome.error] >>
    /\ (StdioAnalyze /\ ProviderRaised) =>
            /\ ~wire.raised
            /\ wire.result = << [type |-> "text", text |-> "Error analyzing text: " \o outcome.error] >>

C3_Witness ==
    /\ StdioChat
    /\ ProviderRaised
    /\ outcome.error = "quota exceeded"
    /\ wire.result[1].text = "Error calling ChatGPT: quota exceeded"

(***************************************************************************)
(* C4: an unknown identifier gets the uniform unknown result and reaches   *)
(* no handler: an HTTP action other than chat, analyze and list_tools      *)
(* (an absent one included) gets status 200 and the body                   *)
(* {error: 'Unknown action'}; a tool name n other than chat_with_gpt and   *)
(* analyze_text gets the single text item 'Unknown tool: n'; the provider  *)
(* is not called.                                                          *)
(***************************************************************************)
C4_UnknownIdentifier ==
    /\ (Decoded /\ Action \notin {"chat", "analyze", "list_tools"}) =>
            /\ OneResponse
            /\ Status = 200
            /\ Body = [error |-> "Unknown action"]
            /\ outbound = <<>>
    /\ (IsToolCall /\ request.name \notin {"chat_with_gpt", "analyze_text"}) =>
            /\ ~wire.raised
            /\ wire.result = << [type |-> "text", text |-> "Unknown tool: " \o request.name] >>
            /\ outbound = <<>>

C4_Witness ==
    /\ IsToolCall
    /\ request.name = "bar"
    /\ wire.result = << [type |-> "text", text |-> "Unknown tool: bar"] >>
    /\ nreq >= 2
    /\ ncalls >= 1

\* The one-message conversation of an analysis request
AnalysisCallSent(type, text) ==
    LET content == Instruction[type] \o "\n\n" \o text
    IN  outbound = << [ model      |-> "gpt-4o",
                        messages   |-> << [role |-> "user", content |-> content] >>,
                        max_tokens |-> 1000 ] >>

(***************************************************************************)
(* C5: for each of the four analysis types and every input text, on both   *)
(* surfaces the analysis relay sends the provider exactly one user-role    *)
(* message, the instruction of the template table followed (after the      *)
(* template's blank line) by the text verbatim, with model 'gpt-4o' and a  *)
(* cap of 1000 output tokens.                                              *)
(***************************************************************************)
C5_AnalysisPrompt ==
    /\ (HttpAnalyze /\ "text" \in DOMAIN Data /\ "analysis_type" \in DOMAIN Data
          /\ Data["analysis_type"] \in AnalysisTypes) =>
            AnalysisCallSent(Data["analysis_type"], Data["text"])
    /\ (StdioAnalyze /\ "text" \in DOMAIN request.arguments
          /\ "analysis_type" \in DOMAIN request.arguments
          /\ request.arguments["analysis_type"] \in AnalysisTypes) =>
            AnalysisCallSent(request.arguments["analysis_type"], request.arguments["text"])

C5_Witness ==
    /\ StdioAnalyze
    /\ Get(request.arguments, "analysis_type", None) = "key_points"
    /\ Len(outbound) = 1
    /\ outbound[1].messages[1].content
         = "Extract the key points from this text as a bulleted list:\n\nsome text"

(***************************************************************************)
(* C6: on the HTTP surface the type field of a successful analyze response *)
(* names the analysis kind whose template was embedded in the outbound     *)
(* message, for every requested analysis_type (unrecognized and absent     *)
(* ones included).  The code echoes the requested value instead.           *)
(***************************************************************************)
C6_TypeNamesTemplateUsed ==
    (HttpAnalyze /\ OneResponse /\ Body.success) =>
        /\ Body.type \in AnalysisTypes
        /\ Len(outbound) = 1
        /\ outbound[1].messages[1].content
             = Instruction[Body.type] \o "\n\n" \o Get(Data, "text", "")

(***************************************************************************)
(* C7: a chat request without a message fails on both surfaces: it gets a  *)
(* failure variant (HTTP error body, stdio error text), never a success,   *)
(* whatever the provider returns.  The code forwards '' or None instead.   *)
(***************************************************************************)
C7_AbsentMessageFails ==
    /\ (HttpChat /\ "message" \notin DOMAIN Data) =>
            /\ OneResponse
            /\ ("success" \in DOMAIN Body => Body.success = FALSE)
    /\ (StdioChat /\ "message" \notin DOMAIN request.arguments) =>
            \E m \in FaultMessages :
                wire.result = << [type |-> "text", text |-> "Error calling ChatGPT: " \o m] >>

(***************************************************************************)
(* The conversation of a chat request: system prompt (or its default),     *)
(* then the message; the model as requested (or 'gpt-4o'); 1000 tokens.    *)
(***************************************************************************)
ChatCallSent(args, noMessage) ==
    outbound = << [ model      |-> IF "model" \in DOMAIN args THEN args["model"] ELSE "gpt-4o",
                    messages   |-> << [ role    |-> "system",
                                        content |-> IF "system_prompt" \in DOMAIN args
                                                    THEN args["system_prompt"]
                                                    ELSE "You are a helpful AI assistant." ],
                                      [ role    |-> "user",
                                        content |-> IF "message" \in DOMAIN args
                                                    THEN args["message"]
                                                    ELSE noMessage ] >>,
                    max_tokens |-> 1000 ] >>

RelayRequest(s, req) ==
    \/ /\ s = "http"
       /\ req.method = "POST"
       /\ req.content_length \in NumericStrings
       /\ req.post_data.json = "object"
       /\ Get(req.post_data.data, "action", None) \in {"chat", "analyze"}
    \/ /\ s = "stdio"
       /\ req.op = "call_tool"
       /\ req.name \in {"chat_with_gpt", "analyze_text"}

\* the analysis template lookup of the request faults before the call
LookupFaults(s, req) ==
    \/ /\ s = "http"
       /\ Get(req.post_data.data, "action", None) = "analyze"
       /\ Get(req.post_data.data, "analysis_type", "summary") = ListValue
    \/ /\ s = "stdio"
       /\ req.name = "analyze_text"
       /\ Get(req.arguments, "analysis_type", None) \notin AnalysisTypes

(***************************************************************************)
(* C9 as stated: over any sequence of requests, every chat or analyze      *)
(* request makes exactly one provider invocation (no retry) and every      *)
(* other request makes none.                                               *)
(***************************************************************************)
C9_OneCallPerRelayRequest ==
    [][ ncalls' - ncalls = IF RelayRequest(surface', request') THEN 1 ELSE 0 ]_vars

(***************************************************************************)
(* C9 as amended: over any sequence of requests, every request makes at    *)
(* most one provider invocation, never re-attempted: exactly one for a     *)
(* chat request and for an analyze request whose template lookup succeeds, *)
(* none for an analyze request whose lookup faults before the call (stdio: *)
(* analysis_type not one of the four; HTTP: an unhashable analysis_type)   *)
(* and none for every other request (list_tools, unknown action or tool,   *)
(* GET, OPTIONS, a POST whose body is not read and decoded to an object).  *)
(***************************************************************************)
C9_AtMostOneCall ==
    [][ /\ ncalls' - ncalls = IF RelayRequest(surface', request') /\ ~LookupFaults(surface', request')
                              THEN 1 ELSE 0
        /\ Len(outbound') = ncalls' - ncalls ]_vars

C9_Witness ==
    /\ StdioAnalyze
    /\ Get(request.arguments, "analysis_type", None) = "foo"
    /\ outbound = <<>>
    /\ wire.result = << [type |-> "text", text |-> "Error analyzing text: 'foo'"] >>
    /\ nreq = 3
    /\ ncalls = 2

(***************************************************************************)
(* C10 as stated: a GET request always gets status 200 and a JSON body     *)
(* with status 'online' whose endpoints.actions lists the two actions chat *)
(* and analyze and no others, whatever came before.                        *)
(***************************************************************************)
IsGet == surface = "http" /\ request.method = "GET"

Elements(seq) == { seq[i] : i \in 1..Len(seq) }

C10_GetListsTwoActions ==
    IsGet =>
        /\ OneResponse
        /\ Status = 200
        /\ Body.status = "online"
        /\ Elements(Body.endpoints["actions"]) = {"chat", "analyze"}

(***************************************************************************)
(* C10 as amended: a GET request always gets status 200 and a JSON body    *)
(* with status 'online' whose endpoints.actions lists the three actions    *)
(* chat, analyze and list_tools, whatever came before.                     *)
(***************************************************************************)
C10_GetListsThreeActions ==
    IsGet =>
        /\ OneResponse
        /\ Status = 200
        /\ wire.responses[1].headers["Content-type"] = "application/json"
        /\ Body.status = "online"
        /\ Body.endpoints["actions"] = <<"chat", "analyze", "list_tools">>
        /\ outbound = <<>>

C10_Witness ==
    /\ IsGet
    /\ nreq = 3
    /\ ncalls = 2
    /\ Body.status = "online"

=============================================================================
